---- MODULE Spec2Model ----
(***************************************************************************)
(* Model of code/main.py of cs224n-win18-squad: the entrypoint that parses *)
(* the flags, derives train_dir and glove_path, builds the model and       *)
(* dispatches on --mode to train / show_examples / official_eval, together *)
(* with initialize_model, the checkpoint initializer.                      *)
(*                                                                         *)
(* One run of main() is a sequence of steps; pc is the position in main(). *)
(* Paths are modelled by their components: [abs, parts], "" being the      *)
(* relative path with no component.                                        *)
(***************************************************************************)
EXTENDS Integers, Sequences, FiniteSets, TLC

VARIABLES
    pc,              \* position in main()
    FLAGS,           \* the argparse namespace (module global FLAGS)
    parsed,          \* FLAGS as parse_known_args() returned it
    argv_len,        \* len(unused_argv)
    py_major,        \* sys.version_info[0]
    bestmodel_dir,   \* local bestmodel_dir of main()
    dirs,            \* directories that exist on disk
    log_txt,         \* paths of log files opened by logging.FileHandler
    flags_json,      \* flags.json files on disk: set of [path, content]
    json_out,        \* prediction files on disk: set of [path, content]
    session,         \* "none" | "open" | "closed"
    sessions_opened, \* number of tf.Session objects created
    ckpt,            \* result of tf.train.get_checkpoint_state
    gfile,           \* files for which tf.gfile.Exists is true
    looked_in,       \* train_dir argument of initialize_model
    expect,          \* expect_exists argument of initialize_model
    params,          \* model parameters: "uninit" | "restored" | "fresh"
    restored_from,   \* path handed to model.saver.restore
    qn_uuid_data,    \* question identifiers read by get_json_data
    answers_dict,    \* uuid -> answer mapping of generate_answers
    error,           \* the exception that ended the run, "none" if none
    trace            \* calls made so far to collaborators / os, in order

vars == <<pc, FLAGS, parsed, argv_len, py_major, bestmodel_dir, dirs,
          log_txt, flags_json, json_out, session, sessions_opened, ckpt,
          gfile, looked_in, expect, params, restored_from, qn_uuid_data,
          answers_dict, error, trace>>

(***************************************************************************)
(* Bounds                                                                  *)
(***************************************************************************)
MaxQuestions == 2      \* question identifiers / questions in the input JSON

(***************************************************************************)
(* Paths                                                                   *)
(***************************************************************************)
Rel(parts) == [abs |-> FALSE, parts |-> parts]
Abs(parts) == [abs |-> TRUE, parts |-> parts]
EmptyPath == Rel(<<>>)

\* truth value of a python string used as a condition
NonEmpty(p) == p.abs \/ p.parts # <<>>

\* os.path.join(a, b): an absolute b discards a
join(a, b) == IF b.abs THEN b ELSE [abs |-> a.abs, parts |-> a.parts \o b.parts]

\* the string a + "/" + b read as a path
Template(a, b) == [abs |-> a.abs, parts |-> a.parts \o b.parts]

\* path + ".index"
Index(p) ==
    IF p.parts = <<>> THEN Rel(<<".index">>)
    ELSE [abs |-> p.abs,
          parts |-> [i \in 1..Len(p.parts) |->
                       IF i = Len(p.parts) THEN p.parts[i] \o ".index"
                       ELSE p.parts[i]]]

\* every ancestor of p and p itself: what os.makedirs(p) creates
Ancestors(p) ==
    {[abs |-> p.abs, parts |-> SubSeq(p.parts, 1, n)] : n \in 1..Len(p.parts)}

MAIN_DIR == Rel(<<"..">>)
DEFAULT_DATA_DIR == join(MAIN_DIR, Rel(<<"data">>))
EXPERIMENTS_DIR == join(MAIN_DIR, Rel(<<"experiments">>))

\* "glove.6B.{}d.txt".format(embedding_size)
GloveFile(n) ==
    CASE n = 50 -> Rel(<<"glove.6B.50d.txt">>)
      [] n = 100 -> Rel(<<"glove.6B.100d.txt">>)
      [] n = 200 -> Rel(<<"glove.6B.200d.txt">>)
      [] OTHER -> Rel(<<"glove.6B.300d.txt">>)

(***************************************************************************)
(* Flag values that a run is started with                                  *)
(***************************************************************************)
Modes == {"train", "show_examples", "official_eval", "eval"}
ExperimentNames == {EmptyPath, Rel(<<"e">>), Abs(<<"tmp", "e">>)}
TrainDirs == {EmptyPath, Rel(<<"t">>)}
GlovePaths == {EmptyPath, Rel(<<"g.txt">>)}
EmbeddingSizes == {50, 100}
CkptLoadDirs == {EmptyPath, Rel(<<"c">>)}
JsonInPaths == {EmptyPath, Rel(<<"in.json">>)}
JsonOutPath == Rel(<<"predictions.json">>)

Namespace ==
    [mode : Modes, experiment_name : ExperimentNames, train_dir : TrainDirs,
     glove_path : GlovePaths, embedding_size : EmbeddingSizes,
     data_dir : {DEFAULT_DATA_DIR}, ckpt_load_dir : CkptLoadDirs,
     json_in_path : JsonInPaths, json_out_path : {JsonOutPath}]

\* directories that may exist before the run
InitialDirs ==
    {{}, {Rel(<<"t">>)}, {Rel(<<"t">>), Rel(<<"t", "best_checkpoint">>)}}

Uuids == 1..MaxQuestions
Answers == {"yes", "no"}
UuidLists == UNION {[1..n -> Uuids] : n \in 0..MaxQuestions}
Range(s) == {s[i] : i \in DOMAIN s}

NoCkpt == [found |-> FALSE, model_checkpoint_path |-> EmptyPath]

Init ==
    /\ pc = "check_argv"
    /\ FLAGS \in Namespace
    /\ parsed = FLAGS
    /\ argv_len \in {1, 2}
    /\ py_major \in {2, 3}
    /\ bestmodel_dir = EmptyPath
    /\ dirs \in InitialDirs
    /\ log_txt = {}
    /\ flags_json = {}
    /\ json_out = {}
    /\ session = "none"
    /\ sessions_opened = 0
    /\ ckpt = NoCkpt
    /\ gfile = {}
    /\ looked_in = EmptyPath
    /\ expect = FALSE
    /\ params = "uninit"
    /\ restored_from = EmptyPath
    /\ qn_uuid_data = <<>>
    /\ answers_dict = <<>>
    /\ error = "none"
    /\ trace = <<>>

Raise(e) == pc' = "failed" /\ error' = e
Call(f) == trace' = Append(trace, f)

(***************************************************************************)
(* main(): the checks before the mode split                                *)
(***************************************************************************)
Rest == <<bestmodel_dir, dirs, log_txt, flags_json, json_out, session,
          sessions_opened, ckpt, gfile, looked_in, expect, params,
          restored_from, qn_uuid_data, answers_dict>>
Env == <<parsed, argv_len, py_major>>

\* if len(unused_argv) != 1: raise
CheckArgv ==
    /\ pc = "check_argv"
    /\ IF argv_len # 1 THEN Raise("bad_argv")
       ELSE pc' = "check_python" /\ UNCHANGED error
    /\ UNCHANGED <<FLAGS, Env, Rest, trace>>

\* if sys.version_info[0] != 3: raise
CheckPython ==
    /\ pc = "check_python"
    /\ IF py_major # 3 THEN Raise("bad_python")
       ELSE pc' = "define_train_dir" /\ UNCHANGED error
    /\ UNCHANGED <<FLAGS, Env, Rest, trace>>

\* mutant: only the train mode insists on a run directory
MissingTrainDir_TrainOnly(F) ==
    /\ ~NonEmpty(F.experiment_name)
    /\ ~NonEmpty(F.train_dir)
    /\ F.mode = "train"

\* not FLAGS.experiment_name and not FLAGS.train_dir and FLAGS.mode != "official_eval"
MissingTrainDir(F) ==
    /\ ~NonEmpty(F.experiment_name)
    /\ ~NonEmpty(F.train_dir)
    /\ F.mode # "official_eval"

\* FLAGS.train_dir or os.path.join(EXPERIMENTS_DIR, FLAGS.experiment_name)
EffectiveTrainDir(F) ==
    IF NonEmpty(F.train_dir) THEN F.train_dir
    ELSE join(EXPERIMENTS_DIR, F.experiment_name)

\* mutant: the default path is taken even when --glove_path was given
EffectiveGlovePath_Default(F) ==
    join(DEFAULT_DATA_DIR, GloveFile(F.embedding_size))

\* FLAGS.glove_path or os.path.join(DEFAULT_DATA_DIR, "glove.6B.{}d.txt".format(...))
EffectiveGlovePath(F) ==
    IF NonEmpty(F.glove_path) THEN F.glove_path
    ELSE join(DEFAULT_DATA_DIR, GloveFile(F.embedding_size))

\* "Define train_dir": the check, then the assignment to FLAGS.train_dir
DefineTrainDir ==
    /\ pc = "define_train_dir"
    /\ IF MissingTrainDir(FLAGS)
         THEN Raise("no_train_dir") /\ UNCHANGED FLAGS
         ELSE /\ FLAGS' = [FLAGS EXCEPT !.train_dir = EffectiveTrainDir(FLAGS)]
              /\ pc' = "bestmodel_dir"
              /\ UNCHANGED error
    /\ UNCHANGED <<Env, Rest, trace>>

\* bestmodel_dir = os.path.join(FLAGS.train_dir, "best_checkpoint")
DefineBestmodelDir ==
    /\ pc = "bestmodel_dir"
    /\ bestmodel_dir' = join(FLAGS.train_dir, Rel(<<"best_checkpoint">>))
    /\ pc' = "glove_path"
    /\ UNCHANGED <<FLAGS, Env, dirs, log_txt, flags_json, json_out, session,
                   sessions_opened, ckpt, gfile, looked_in, expect, params,
                   restored_from, qn_uuid_data, answers_dict, error, trace>>

\* FLAGS.glove_path = FLAGS.glove_path or <default>
DefineGlovePath ==
    /\ pc = "glove_path"
    /\ FLAGS' = [FLAGS EXCEPT !.glove_path = EffectiveGlovePath(FLAGS)]
    /\ pc' = "get_glove"
    /\ UNCHANGED <<Env, Rest, error, trace>>

\* emb_matrix, word2id, id2word = get_glove(...); the loader may raise
GetGlove ==
    /\ pc = "get_glove"
    /\ Call("get_glove")
    /\ \E ok \in BOOLEAN :
         IF ok THEN pc' = "build_model" /\ UNCHANGED error
         ELSE Raise("collaborator")
    /\ UNCHANGED <<FLAGS, Env, Rest>>

\* qa_model = QAModel(FLAGS, id2word, word2id, emb_matrix)
BuildModel ==
    /\ pc = "build_model"
    /\ Call("QAModel")
    /\ pc' = "split"
    /\ UNCHANGED <<FLAGS, Env, Rest, error>>

\* mutant: an unrecognised mode falls into the train branch
Branch_DefaultTrain(mode) ==
    CASE mode = "show_examples" -> "show_session"
      [] mode = "official_eval" -> "eval_check"
      [] OTHER -> "train_mkdir"

\* the if / elif / elif / else on FLAGS.mode
Branch(mode) ==
    CASE mode = "train" -> "train_mkdir"
      [] mode = "show_examples" -> "show_session"
      [] mode = "official_eval" -> "eval_check"
      [] OTHER -> "else"

\* "Split by mode"; the else branch raises
SplitByMode ==
    /\ pc = "split"
    /\ IF Branch(FLAGS.mode) = "else" THEN Raise("bad_mode")
       ELSE pc' = Branch(FLAGS.mode) /\ UNCHANGED error
    /\ UNCHANGED <<FLAGS, Env, Rest, trace>>

(***************************************************************************)
(* initialize_model and the session scope                                  *)
(***************************************************************************)
\* what tf.train.get_checkpoint_state(train_dir) may return: None, or a
\* state record naming the latest checkpoint of that directory
get_checkpoint_state(train_dir) ==
    {NoCkpt,
     [found |-> TRUE,
      model_checkpoint_path |-> join(train_dir, Rel(<<"qa.ckpt">>))]}

\* the checkpoint files that may be on disk for a state record
CkptFiles(c) ==
    IF c.found THEN SUBSET {c.model_checkpoint_path, Index(c.model_checkpoint_path)}
    ELSE {{}}

\* v2_path = ckpt.model_checkpoint_path + ".index" if ckpt else ""
v2_path(c) == IF c.found THEN Index(c.model_checkpoint_path) ELSE EmptyPath

\* mutant: a state record is trusted without looking for its files
CheckpointFound_NoExists(c, files) == c.found

\* ckpt and (tf.gfile.Exists(ckpt.model_checkpoint_path) or tf.gfile.Exists(v2_path))
CheckpointFound(c, files) ==
    c.found /\ (c.model_checkpoint_path \in files \/ v2_path(c) \in files)

\* mutant: no caller insists on an existing checkpoint
expect_exists_Never(mode) == FALSE

\* mutant: every caller insists on an existing checkpoint
expect_exists_Always(mode) == TRUE

\* the expect_exists argument at the call of each mode
expect_exists(mode) == mode # "train"

\* an exception raised inside a `with tf.Session(...)` block
RaiseInSession(e) == pc' = "session_exit" /\ error' = e

\* with tf.Session(config=config) as sess:
OpenSession(next) ==
    /\ session' = "open"
    /\ sessions_opened' = sessions_opened + 1
    /\ Call("Session")
    /\ pc' = next
    /\ UNCHANGED <<FLAGS, Env, bestmodel_dir, dirs, log_txt, flags_json,
                   json_out, ckpt, gfile, looked_in, expect, params,
                   restored_from, qn_uuid_data, answers_dict, error>>

\* initialize_model(session, model, train_dir, expect_exists)
initialize_model(train_dir, expect_exists_arg, next) ==
    /\ looked_in' = train_dir
    /\ expect' = expect_exists_arg
    /\ \E c \in get_checkpoint_state(train_dir) : \E files \in CkptFiles(c) :
         /\ ckpt' = c
         /\ gfile' = files
         /\ IF CheckpointFound(c, files)
              THEN /\ params' = "restored"
                   /\ restored_from' = c.model_checkpoint_path
                   /\ trace' = trace \o <<"get_checkpoint_state", "restore">>
                   /\ pc' = next
                   /\ UNCHANGED error
              ELSE IF expect_exists_arg
                THEN /\ RaiseInSession("no_checkpoint")
                     /\ trace' = Append(trace, "get_checkpoint_state")
                     /\ UNCHANGED <<params, restored_from>>
                ELSE /\ params' = "fresh"
                     /\ trace' = trace \o <<"get_checkpoint_state",
                                            "global_variables_initializer">>
                     /\ pc' = next
                     /\ UNCHANGED <<restored_from, error>>
    /\ UNCHANGED <<FLAGS, Env, bestmodel_dir, dirs, log_txt, flags_json,
                   json_out, session, sessions_opened, qn_uuid_data,
                   answers_dict>>

\* a routine of the model, called inside the session; it returns or raises
Delegate(routine) ==
    /\ Call(routine)
    /\ \E ok \in BOOLEAN :
         IF ok THEN pc' = "session_exit" /\ UNCHANGED error
         ELSE RaiseInSession("collaborator")
    /\ UNCHANGED <<FLAGS, Env, Rest>>

\* mutant: the session is closed on the normal path only
SessionExit_Leak ==
    /\ pc = "session_exit"
    /\ IF error = "none"
         THEN session' = "closed" /\ Call("close") /\ pc' = "done"
         ELSE pc' = "failed" /\ UNCHANGED <<session, trace>>
    /\ UNCHANGED <<FLAGS, Env, bestmodel_dir, dirs, log_txt, flags_json,
                   json_out, sessions_opened, ckpt, gfile, looked_in, expect,
                   params, restored_from, qn_uuid_data, answers_dict, error>>

\* leaving the `with` block: the session is closed, then the run goes on
\* (here: main returns) or the exception propagates
SessionExit ==
    /\ pc = "session_exit"
    /\ session' = "closed"
    /\ Call("close")
    /\ pc' = IF error = "none" THEN "done" ELSE "failed"
    /\ UNCHANGED <<FLAGS, Env, bestmodel_dir, dirs, log_txt, flags_json,
                   json_out, sessions_opened, ckpt, gfile, looked_in, expect,
                   params, restored_from, qn_uuid_data, answers_dict, error>>

(***************************************************************************)
(* mode train                                                              *)
(***************************************************************************)
\* FLAGS.__dict__ as json.dump writes it: one member per flag
dict_of(F) == [k \in DOMAIN F |-> F[k]]

\* os.makedirs(FLAGS.train_dir) if absent, then the FileHandler on log.txt
TrainSetupDir ==
    /\ pc = "train_mkdir"
    /\ IF FLAGS.train_dir \notin dirs
         THEN /\ dirs' = dirs \cup Ancestors(FLAGS.train_dir)
              /\ trace' = trace \o <<"makedirs", "FileHandler">>
         ELSE /\ UNCHANGED dirs
              /\ Call("FileHandler")
    /\ log_txt' = log_txt \cup {join(FLAGS.train_dir, Rel(<<"log.txt">>))}
    /\ pc' = "train_flags"
    /\ UNCHANGED <<FLAGS, Env, bestmodel_dir, flags_json, json_out, session,
                   sessions_opened, ckpt, gfile, looked_in, expect, params,
                   restored_from, qn_uuid_data, answers_dict, error>>

\* json.dump(FLAGS.__dict__, fout) into train_dir/flags.json
TrainSaveFlags ==
    /\ pc = "train_flags"
    /\ flags_json' = {[path |-> join(FLAGS.train_dir, Rel(<<"flags.json">>)),
                       content |-> dict_of(FLAGS)]}
    /\ Call("write_flags")
    /\ pc' = "train_mkbest"
    /\ UNCHANGED <<FLAGS, Env, bestmodel_dir, dirs, log_txt, json_out,
                   session, sessions_opened, ckpt, gfile, looked_in, expect,
                   params, restored_from, qn_uuid_data, answers_dict, error>>

\* os.makedirs(bestmodel_dir) if absent
TrainMakeBestDir ==
    /\ pc = "train_mkbest"
    /\ IF bestmodel_dir \notin dirs
         THEN dirs' = dirs \cup Ancestors(bestmodel_dir) /\ Call("makedirs")
         ELSE UNCHANGED <<dirs, trace>>
    /\ pc' = "train_session"
    /\ UNCHANGED <<FLAGS, Env, bestmodel_dir, log_txt, flags_json, json_out,
                   session, sessions_opened, ckpt, gfile, looked_in, expect,
                   params, restored_from, qn_uuid_data, answers_dict, error>>

TrainOpenSession == pc = "train_session" /\ OpenSession("train_init")

\* initialize_model(sess, qa_model, FLAGS.train_dir, expect_exists=False)
TrainInitializeModel ==
    /\ pc = "train_init"
    /\ initialize_model(FLAGS.train_dir, expect_exists("train"), "train_run")

\* qa_model.train(sess, ...)
Train == pc = "train_run" /\ Delegate("train")

(***************************************************************************)
(* mode show_examples                                                      *)
(***************************************************************************)
ShowOpenSession == pc = "show_session" /\ OpenSession("show_init")

\* initialize_model(sess, qa_model, bestmodel_dir, expect_exists=True)
ShowInitializeModel ==
    /\ pc = "show_init"
    /\ initialize_model(bestmodel_dir, expect_exists("show_examples"), "show_run")

\* qa_model.check_f1_em(sess, ..., num_samples=10, print_to_screen=True)
ShowExamples == pc = "show_run" /\ Delegate("check_f1_em")

(***************************************************************************)
(* mode official_eval                                                      *)
(***************************************************************************)
\* mutant: only --json_in_path is required
OfficialEvalError_JsonOnly(F) ==
    IF F.json_in_path = EmptyPath THEN "no_json_in_path" ELSE "none"

\* the two checks at the head of the official_eval branch
OfficialEvalError(F) ==
    IF F.json_in_path = EmptyPath THEN "no_json_in_path"
    ELSE IF F.ckpt_load_dir = EmptyPath THEN "no_ckpt_load_dir"
    ELSE "none"

EvalCheckFlags ==
    /\ pc = "eval_check"
    /\ IF OfficialEvalError(FLAGS) # "none" THEN Raise(OfficialEvalError(FLAGS))
       ELSE pc' = "eval_read" /\ UNCHANGED error
    /\ UNCHANGED <<FLAGS, Env, Rest, trace>>

\* the question identifiers get_json_data may find in the input file
get_json_data(json_in_path) == UuidLists

\* the mappings generate_answers may return: one answer per identifier
generate_answers(uuids) == [Range(uuids) -> Answers]

\* qn_uuid_data, ... = get_json_data(FLAGS.json_in_path); it may raise
EvalReadJson ==
    /\ pc = "eval_read"
    /\ Call("get_json_data")
    /\ \/ /\ qn_uuid_data' \in get_json_data(FLAGS.json_in_path)
          /\ pc' = "eval_session"
          /\ UNCHANGED error
       \/ Raise("collaborator") /\ UNCHANGED qn_uuid_data
    /\ UNCHANGED <<FLAGS, Env, bestmodel_dir, dirs, log_txt, flags_json,
                   json_out, session, sessions_opened, ckpt, gfile, looked_in,
                   expect, params, restored_from, answers_dict>>

EvalOpenSession == pc = "eval_session" /\ OpenSession("eval_init")

\* initialize_model(sess, qa_model, FLAGS.ckpt_load_dir, expect_exists=True)
EvalInitializeModel ==
    /\ pc = "eval_init"
    /\ initialize_model(FLAGS.ckpt_load_dir, expect_exists("official_eval"),
                        "eval_generate")

\* answers_dict = generate_answers(sess, qa_model, word2id, qn_uuid_data, ...)
EvalGenerateAnswers ==
    /\ pc = "eval_generate"
    /\ Call("generate_answers")
    /\ \/ /\ answers_dict' \in generate_answers(qn_uuid_data)
          /\ pc' = "eval_write"
          /\ UNCHANGED error
       \/ RaiseInSession("collaborator") /\ UNCHANGED answers_dict
    /\ UNCHANGED <<FLAGS, Env, bestmodel_dir, dirs, log_txt, flags_json,
                   json_out, session, sessions_opened, ckpt, gfile, looked_in,
                   expect, params, restored_from, qn_uuid_data>>

\* mutant: the first identifier's entry is lost
json_dumps_DropOne(d) ==
    {[key |-> k, value |-> d[k]] : k \in DOMAIN d \ {1}}

\* json.dumps(answers_dict): a JSON object, one member per key
json_dumps(d) == {[key |-> k, value |-> d[k]] : k \in DOMAIN d}

\* f.write(json.dumps(answers_dict)) into FLAGS.json_out_path
EvalWritePredictions ==
    /\ pc = "eval_write"
    /\ json_out' = {[path |-> FLAGS.json_out_path,
                     content |-> json_dumps(answers_dict)]}
    /\ Call("write_json_out")
    /\ pc' = "session_exit"
    /\ UNCHANGED <<FLAGS, Env, bestmodel_dir, dirs, log_txt, flags_json,
                   session, sessions_opened, ckpt, gfile, looked_in, expect,
                   params, restored_from, qn_uuid_data, answers_dict, error>>

Next ==
    \/ CheckArgv
    \/ CheckPython
    \/ DefineTrainDir
    \/ DefineBestmodelDir
    \/ DefineGlovePath
    \/ GetGlove
    \/ BuildModel
    \/ SplitByMode
    \/ TrainSetupDir
    \/ TrainSaveFlags
    \/ TrainMakeBestDir
    \/ TrainOpenSession
    \/ TrainInitializeModel
    \/ Train
    \/ ShowOpenSession
    \/ ShowInitializeModel
    \/ ShowExamples
    \/ EvalCheckFlags
    \/ EvalReadJson
    \/ EvalOpenSession
    \/ EvalInitializeModel
    \/ EvalGenerateAnswers
    \/ EvalWritePredictions
    \/ SessionExit

Spec == Init /\ [][Next]_vars

(***************************************************************************)
(* Properties                                                              *)
(***************************************************************************)
Called(f) == \E i \in DOMAIN trace : trace[i] = f
Times(f) == Cardinality({i \in DOMAIN trace : trace[i] = f})
\* every call of g is preceded by a call of f
Before(f, g) ==
    \A j \in DOMAIN trace : trace[j] = g => \E i \in 1..(j - 1) : trace[i] = f
Terminated == pc \in {"done", "failed"}
Routines == {"train", "check_f1_em", "generate_answers"}
Invoked == {r \in Routines : Called(r)}
NoFileWritten ==
    /\ flags_json = {} /\ json_out = {} /\ log_txt = {}
    /\ ~Called("makedirs") /\ ~Called("write_flags") /\ ~Called("write_json_out")
BothUnset ==
    parsed.experiment_name = EmptyPath /\ parsed.train_dir = EmptyPath
\* the checkpoint state found by the lookup has a data file on disk
HasData ==
    /\ ckpt.found
    /\ \/ ckpt.model_checkpoint_path \in gfile
       \/ Index(ckpt.model_checkpoint_path) \in gfile
\* the flag checks at the head of main() have passed
Validated ==
    /\ pc \notin {"check_argv", "check_python", "define_train_dir"}
    /\ error \notin {"bad_argv", "bad_python", "no_train_dir"}
Under(dir, name) == [abs |-> dir.abs, parts |-> Append(dir.parts, name)]

\* C1: once initialize_model has run, exactly one of three outcomes took
\* place: parameters restored from the found checkpoint when a checkpoint
\* state exists and its path or path + ".index" is on disk; an exception and
\* nothing restored or initialized when there is none and expect_exists;
\* fresh parameters and no exception when there is none and not
\* expect_exists.  A state record without files counts as none.
C1_InitializeModelOutcomes ==
    Called("get_checkpoint_state") =>
      /\ looked_in \in {FLAGS.train_dir, bestmodel_dir, FLAGS.ckpt_load_dir}
      /\ HasData =>
           /\ params = "restored"
           /\ restored_from = ckpt.model_checkpoint_path
           /\ Called("restore")
           /\ ~Called("global_variables_initializer")
           /\ error # "no_checkpoint"
      /\ (~HasData /\ expect) =>
           /\ error = "no_checkpoint"
           /\ params = "uninit"
           /\ ~Called("restore")
           /\ ~Called("global_variables_initializer")
      /\ (~HasData /\ ~expect) =>
           /\ params = "fresh"
           /\ Called("global_variables_initializer")
           /\ ~Called("restore")
           /\ error # "no_checkpoint"

\* a state record whose files are both missing, with expect_exists: raised
C1_Witness ==
    /\ Called("get_checkpoint_state")
    /\ ckpt.found /\ gfile = {} /\ expect
    /\ error = "no_checkpoint" /\ params = "uninit"

\* C2: outside official_eval, a run given neither --experiment_name nor
\* --train_dir never gets past the train_dir check: it has loaded no
\* embeddings, built no model, opened no session and written nothing, and
\* it does not end normally; in official_eval the missing pair is never the
\* error.
C2_MissingRunDirIsFatal ==
    /\ (parsed.mode # "official_eval" /\ BothUnset) =>
         /\ pc \in {"check_argv", "check_python", "define_train_dir", "failed"}
         /\ pc = "failed" => error \in {"bad_argv", "bad_python", "no_train_dir"}
         /\ trace = <<>>
         /\ session = "none" /\ sessions_opened = 0
         /\ NoFileWritten
    /\ parsed.mode = "official_eval" => error # "no_train_dir"

C2_Witness ==
    /\ parsed.mode = "show_examples" /\ BothUnset
    /\ pc = "failed" /\ error = "no_train_dir"

\* C3: in official_eval, a run with an empty --json_in_path or an empty
\* --ckpt_load_dir never reads the input JSON, never opens a session, never
\* restores a checkpoint, never writes predictions and does not end
\* normally.
C3_OfficialEvalFlagsRequired ==
    (/\ parsed.mode = "official_eval"
     /\ parsed.json_in_path = EmptyPath \/ parsed.ckpt_load_dir = EmptyPath) =>
      /\ ~Called("get_json_data")
      /\ session = "none" /\ sessions_opened = 0
      /\ ~Called("get_checkpoint_state") /\ params = "uninit"
      /\ json_out = {} /\ ~Called("write_json_out")
      /\ pc \notin {"done", "eval_read", "eval_session", "eval_init",
                    "eval_generate", "eval_write", "session_exit"}
      /\ pc = "failed" =>
           error \in {"bad_argv", "bad_python", "collaborator",
                      "no_json_in_path", "no_ckpt_load_dir"}

C3_Witness ==
    /\ parsed.mode = "official_eval"
    /\ parsed.json_in_path # EmptyPath /\ parsed.ckpt_load_dir = EmptyPath
    /\ pc = "failed" /\ error = "no_ckpt_load_dir"

\* C4: at most one of train, check_f1_em and generate_answers is invoked in
\* a run, at most once, and it is the one --mode names; with any other mode
\* none is invoked, no session is opened, nothing is written and the run
\* does not end normally.
C4_ModeDispatch ==
    /\ Cardinality(Invoked) <= 1
    /\ \A r \in Routines : Times(r) <= 1
    /\ Called("train") => parsed.mode = "train"
    /\ Called("check_f1_em") => parsed.mode = "show_examples"
    /\ Called("generate_answers") => parsed.mode = "official_eval"
    /\ parsed.mode \notin {"train", "show_examples", "official_eval"} =>
         /\ Invoked = {}
         /\ session = "none" /\ sessions_opened = 0
         /\ NoFileWritten
         /\ pc # "done"
         /\ (pc = "failed" /\ Called("QAModel")) => error = "bad_mode"

C4_Witness ==
    /\ parsed.mode = "eval" /\ Called("QAModel")
    /\ pc = "failed" /\ error = "bad_mode"

\* C5: in train mode, when the checkpoint lookup is due or done, the run
\* directory exists, flags.json in it holds the configuration and the
\* best_checkpoint subdirectory exists; the lookup is on the run directory
\* with expect_exists false and never raises; train is invoked only with
\* restored or fresh parameters.
C5_TrainOrder ==
    parsed.mode = "train" =>
      /\ (pc = "train_init" \/ Called("get_checkpoint_state")) =>
           /\ FLAGS.train_dir \in dirs
           /\ flags_json = {[path |-> Under(FLAGS.train_dir, "flags.json"),
                             content |-> FLAGS]}
           /\ Under(FLAGS.train_dir, "best_checkpoint") \in dirs
           /\ session # "none"
      /\ Before("write_flags", "Session")
      /\ Before("Session", "get_checkpoint_state")
      /\ Called("get_checkpoint_state") =>
           /\ looked_in = FLAGS.train_dir
           /\ expect = FALSE
           /\ error # "no_checkpoint"
           /\ params \in {"restored", "fresh"}
      /\ Before("get_checkpoint_state", "train")
      /\ Called("train") => params \in {"restored", "fresh"}

\* training started on fresh parameters because no checkpoint was there
C5_Witness ==
    /\ parsed.mode = "train" /\ Called("train")
    /\ ~ckpt.found /\ params = "fresh"

\* C6: check_f1_em runs only on parameters restored from a checkpoint found
\* in train_dir/best_checkpoint, generate_answers only on parameters
\* restored from one found in --ckpt_load_dir; in these two modes parameters
\* are never initialized afresh, and a missing checkpoint ends the run in
\* an error with no routine invoked and no predictions written.
C6_NeverFreshOutsideTrain ==
    /\ Called("check_f1_em") =>
         /\ params = "restored" /\ HasData
         /\ looked_in = Under(FLAGS.train_dir, "best_checkpoint")
         /\ Before("restore", "check_f1_em")
    /\ Called("generate_answers") =>
         /\ params = "restored" /\ HasData
         /\ looked_in = FLAGS.ckpt_load_dir
         /\ Before("restore", "generate_answers")
    /\ parsed.mode \in {"show_examples", "official_eval"} =>
         /\ params # "fresh"
         /\ ~Called("global_variables_initializer")
         /\ (Called("get_checkpoint_state") /\ ~HasData) =>
              /\ error = "no_checkpoint"
              /\ Invoked = {}
              /\ json_out = {}
              /\ pc \in {"session_exit", "failed"}

C6_Witness ==
    /\ parsed.mode = "show_examples"
    /\ Called("get_checkpoint_state") /\ ~HasData
    /\ pc = "failed" /\ error = "no_checkpoint"

\* C7: once the flag checks have passed, train_dir is the given --train_dir
\* when that is non-empty and experiments/{experiment_name} otherwise, and
\* bestmodel_dir is train_dir/best_checkpoint.
C7_TrainDirDefault ==
    Validated =>
      /\ NonEmpty(parsed.train_dir) => FLAGS.train_dir = parsed.train_dir
      /\ ~NonEmpty(parsed.train_dir) =>
           FLAGS.train_dir = Template(EXPERIMENTS_DIR, parsed.experiment_name)
      /\ pc # "bestmodel_dir" =>
           bestmodel_dir = Under(FLAGS.train_dir, "best_checkpoint")

C9_ConfigFixedAfterParse ==
    /\ FLAGS = parsed
    /\ \A f \in flags_json : f.content = parsed

\* C9 amended: every value but train_dir and glove_path stays as parsed;
\* those two are replaced by main(), before the embeddings are loaded, by
\* their defaults when empty and kept when given, and do not change again;
\* flags.json holds the configuration with these two values derived.
C9_ConfigFixedAfterDefaults ==
    LET train_dir_set == Validated
        glove_path_set == Validated /\ pc \notin {"bestmodel_dir", "glove_path"}
        derived ==
          [parsed EXCEPT
             !.train_dir =
                IF train_dir_set /\ parsed.train_dir = EmptyPath
                  THEN IF parsed.experiment_name.abs THEN parsed.experiment_name
                       ELSE Template(EXPERIMENTS_DIR, parsed.experiment_name)
                  ELSE parsed.train_dir,
             !.glove_path =
                IF glove_path_set /\ parsed.glove_path = EmptyPath
                  THEN Template(DEFAULT_DATA_DIR, GloveFile(parsed.embedding_size))
                  ELSE parsed.glove_path]
    IN /\ FLAGS = derived
       /\ Called("get_glove") => (train_dir_set /\ glove_path_set)
       /\ \A f \in flags_json :
            /\ f.content = derived
            /\ train_dir_set /\ glove_path_set

\* flags.json written by a run that gave neither --train_dir nor --glove_path
C9_Witness ==
    /\ flags_json # {}
    /\ parsed.train_dir = EmptyPath /\ parsed.glove_path = EmptyPath
    /\ FLAGS # parsed

\* C10: a run opens at most one session, only inside the branch of its mode,
\* and no run has ended, normally or with an error, with its session open.
C10_SessionScope ==
    /\ sessions_opened <= 1
    /\ Times("Session") = sessions_opened
    /\ (session = "none") <=> (sessions_opened = 0)
    /\ session = "open" =>
         pc \in {"train_init", "train_run", "show_init", "show_run",
                 "eval_init", "eval_generate", "eval_write", "session_exit"}
    /\ Called("Session") =>
         /\ Before("QAModel", "Session")
         /\ parsed.mode \in {"train", "show_examples", "official_eval"}
    /\ Terminated => session # "open"
    /\ (Terminated /\ sessions_opened = 1) =>
         /\ session = "closed"
         /\ Times("close") = 1

\* a run ended by an exception raised inside the session scope
C10_Witness ==
    /\ pc = "failed" /\ session = "closed"
    /\ error \in {"no_checkpoint", "collaborator"}
    /\ Called("Session")

====
